---- MODULE Spec2Model ----
(***************************************************************************)
(* ListCast (src/src/components/ListCast.jsx): a React component that      *)
(* fetches cast.json on mount and renders a placeholder, an error branch   *)
(* with a Retry control, or a Refresh control followed by a grid.          *)
(*                                                                         *)
(* The React state (cast, loading, error) is the committed state between   *)
(* events.  One action is one event callback of the single-threaded event  *)
(* loop: the mount effect, a click, the arrival of a response, the end of  *)
(* the body parse.  The state updates made inside one callback are         *)
(* committed together.  fetchCast suspends at its two awaits, so it is     *)
(* split there: its synchronous prefix, the continuation after fetch(),    *)
(* and the continuation after response.json().                             *)
(*                                                                         *)
(* Counter (src/src/components/App.md, lines 49-92): a button that counts  *)
(* its clicks and, in an effect run after every render, writes the count   *)
(* into document.title.                                                    *)
(***************************************************************************)
EXTENDS Integers, Sequences, FiniteSets, TLC

\* Longest fetched collection, and size of the pool of cast members.
MaxLen == 2
\* Cap on the number of fetchCast invocations in one behaviour.
MaxFetches == 3
\* Cap on the number of clicks on the Counter button in one behaviour.
MaxCount == 15

VARIABLES
    cast,         \* useState([])    : the stored collection
    loading,      \* useState(true)  : the loading flag
    error,        \* useState(null)  : the error message or Null
    mounted,      \* how many times the mount effect has run
    attempts,     \* one record per fetchCast invocation, in start order
    clicks,       \* number of clicks accepted by a rendered control
    settledOrder, \* ids of the settled attempts, in settle order
    last,         \* the last event and the React state it started from
    onChoice,     \* whether the parent passes an onChoice prop to ListCast
    invoked,      \* the arguments of the calls of onChoice so far
    pageTitle,    \* const pageTitle = document.title, captured at load
    title,        \* document.title
    count,        \* Counter: useState(0)
    effectDue,    \* Counter: the effect of the latest render has not run yet
    presses       \* number of clicks on the Counter button

\* The state of ListCast and its history.
galleryVars == <<cast, loading, error, mounted, attempts, clicks, settledOrder, last>>

\* The onChoice prop and its calls.
choiceVars == <<onChoice, invoked>>

\* The state of Counter, document.title and the click history.
counterVars == <<pageTitle, title, count, effectDue, presses>>

vars == <<galleryVars, choiceVars, counterVars>>

-----------------------------------------------------------------------------
(* Values *)

\* JavaScript null, the initial value of error.
Null == "<null>"

\* if (error): null and the empty string are falsy.
Truthy(e) == e # Null /\ e # ""

\* One CastMember record of cast.json.
Member(i) == [id |-> i, name |-> "Member " \o ToString(i), slug |-> "slug" \o ToString(i)]

Members == {Member(i) : i \in 1..MaxLen}

UniqueIds(s) == \A i, j \in 1..Len(s) : i # j => s[i].id # s[j].id

\* The arrays response.json() can produce: well-formed, ids unique.  A body
\* that parses to something other than an array is outside the model.
Payloads == {s \in UNION {[1..k -> Members] : k \in 0..MaxLen} : UniqueIds(s)}

\* Status codes a response can carry.
Statuses == {200, 299, 300, 404}

\* response.ok: the status is in the range 200-299.
ResponseOk(status) == status >= 200 /\ status <= 299

\* The message of the Error thrown for a non-ok response.
HttpErrorMessageGeneric(status) == "Network error"

HttpErrorMessage(status) == "HTTP error! status: " \o ToString(status)

\* err.message of a rejected fetch() (network unreachable, CORS, ...).
TransportMessages == {"Failed to fetch"}

\* err.message of a rejected response.json().
ParseMessages == {"Unexpected end of JSON input"}

\* Values document.title can have when the page loads.
Titles == {"React App", "Cast"}

\* s contains sub as a substring.
Contains(s, sub) ==
    \E i \in 1..(Len(s) - Len(sub) + 1) : SubSeq(s, i, i + Len(sub) - 1) = sub

-----------------------------------------------------------------------------
(* Render *)

\* One grid element: <a key data-tooltip><img src alt /></a>.
Thumbnail(member) ==
    [key |-> member.id,
     tooltip |-> member.name,
     src |-> "images/" \o member.slug \o "_tn.svg",
     alt |-> member.name]

\* cast.map(...): one thumbnail per member, in the order of the collection.
GridOfReversed(c) == [i \in 1..Len(c) |-> Thumbnail(c[Len(c) + 1 - i])]

GridOf(c) == [i \in 1..Len(c) |-> Thumbnail(c[i])]

\* What the component returns for a given state.
RenderPlaceholderWhileLoading(c, l, e) ==
    IF l THEN
        [text |-> "Loading cast...",
         retry |-> FALSE, refresh |-> FALSE, disabled |-> FALSE,
         spinner |-> FALSE, label |-> "",
         gridShown |-> FALSE, grid |-> <<>>]
    ELSE IF Truthy(e) THEN
        [text |-> "Failed to load cast: " \o e,
         retry |-> TRUE, refresh |-> FALSE, disabled |-> FALSE,
         spinner |-> FALSE, label |-> "Retry",
         gridShown |-> FALSE, grid |-> <<>>]
    ELSE
        [text |-> "",
         retry |-> FALSE, refresh |-> TRUE, disabled |-> l,
         spinner |-> l, label |-> IF l THEN "Refreshing..." ELSE "Refresh Cast",
         gridShown |-> TRUE, grid |-> GridOf(c)]

RenderNeverDisabled(c, l, e) ==
    IF l /\ Len(c) = 0 THEN
        [text |-> "Loading cast...",
         retry |-> FALSE, refresh |-> FALSE, disabled |-> FALSE,
         spinner |-> FALSE, label |-> "",
         gridShown |-> FALSE, grid |-> <<>>]
    ELSE IF Truthy(e) THEN
        [text |-> "Failed to load cast: " \o e,
         retry |-> TRUE, refresh |-> FALSE, disabled |-> FALSE,
         spinner |-> FALSE, label |-> "Retry",
         gridShown |-> FALSE, grid |-> <<>>]
    ELSE
        [text |-> "",
         retry |-> FALSE, refresh |-> TRUE, disabled |-> FALSE,
         spinner |-> l, label |-> IF l THEN "Refreshing..." ELSE "Refresh Cast",
         gridShown |-> TRUE, grid |-> GridOf(c)]

Render(c, l, e) ==
    IF l /\ Len(c) = 0 THEN
        [text |-> "Loading cast...",
         retry |-> FALSE, refresh |-> FALSE, disabled |-> FALSE,
         spinner |-> FALSE, label |-> "",
         gridShown |-> FALSE, grid |-> <<>>]
    ELSE IF Truthy(e) THEN
        [text |-> "Failed to load cast: " \o e,
         retry |-> TRUE, refresh |-> FALSE, disabled |-> FALSE,
         spinner |-> FALSE, label |-> "Retry",
         gridShown |-> FALSE, grid |-> <<>>]
    ELSE
        [text |-> "",
         retry |-> FALSE, refresh |-> TRUE, disabled |-> l,
         spinner |-> l, label |-> IF l THEN "Refreshing..." ELSE "Refresh Cast",
         gridShown |-> TRUE, grid |-> GridOf(c)]

\* The view of the current state.
View == Render(cast, loading, error)

\* The view the last event started from.
ViewBefore == Render(last.cast, last.loading, last.error)

PlaceholderOnly(v) ==
    v.text = "Loading cast..." /\ ~v.retry /\ ~v.refresh /\ ~v.gridShown

ErrorWithRetry(v) ==
    Contains(v.text, "Failed to load cast: ") /\ v.retry /\ ~v.refresh /\ ~v.gridShown

RefreshThenGrid(v) ==
    v.text = "" /\ ~v.retry /\ v.refresh /\ v.gridShown

-----------------------------------------------------------------------------
(* Attempts *)

Ids == 1..Len(attempts)

InFlight == {a \in Ids : attempts[a].pc # "settled"}

\* The event record: what happened, to which attempt, from which state.
Event(kind, a, status, data, msg) ==
    [kind |-> kind, id |-> a, status |-> status, data |-> data, msg |-> msg,
     cast |-> cast, loading |-> loading, error |-> error,
     inFlight |-> InFlight]

StartKinds == {"mount", "retry", "refresh"}

SettleKinds == {"ResponseNotOk", "FetchRejects", "JsonParses", "JsonFails"}

\* Attempt a has run to the end of fetchCast with the given outcome: the
\* catch clause has handled whatever was thrown, so the promise fetchCast
\* returned is fulfilled.  shown, the collection on display when the attempt
\* started, is kept only while the attempt is in flight.
Settled(a, outcome) ==
    /\ attempts' = [attempts EXCEPT ![a].pc = "settled", ![a].outcome = outcome,
                                    ![a].shown = <<>>, ![a].promise = "fulfilled"]
    /\ settledOrder' = Append(settledOrder, a)

-----------------------------------------------------------------------------
(* fetchCast *)

\* The synchronous prefix of fetchCast, up to the await of fetch().
fetchCastKeepsError(origin) ==
    /\ Len(attempts) < MaxFetches
    /\ loading' = TRUE
    /\ attempts' = Append(attempts, [origin |-> origin, pc |-> "fetch",
                                     outcome |-> "pending", shown |-> cast,
                                     promise |-> "pending"])
    /\ last' = Event(origin, Len(attempts) + 1, 0, <<>>, Null)
    /\ UNCHANGED <<cast, error, settledOrder, choiceVars, counterVars>>

fetchCastNoSetLoading(origin) ==
    /\ Len(attempts) < MaxFetches
    /\ error' = Null
    /\ attempts' = Append(attempts, [origin |-> origin, pc |-> "fetch",
                                     outcome |-> "pending", shown |-> cast,
                                     promise |-> "pending"])
    /\ last' = Event(origin, Len(attempts) + 1, 0, <<>>, Null)
    /\ UNCHANGED <<cast, loading, settledOrder, choiceVars, counterVars>>

fetchCastClearsCast(origin) ==
    /\ Len(attempts) < MaxFetches
    /\ loading' = TRUE
    /\ error' = Null
    /\ cast' = <<>>
    /\ attempts' = Append(attempts, [origin |-> origin, pc |-> "fetch",
                                     outcome |-> "pending", shown |-> cast,
                                     promise |-> "pending"])
    /\ last' = Event(origin, Len(attempts) + 1, 0, <<>>, Null)
    /\ UNCHANGED <<settledOrder, choiceVars, counterVars>>

fetchCast(origin) ==
    /\ Len(attempts) < MaxFetches
    /\ loading' = TRUE
    /\ error' = Null
    /\ attempts' = Append(attempts, [origin |-> origin, pc |-> "fetch",
                                     outcome |-> "pending", shown |-> cast,
                                     promise |-> "pending"])
    /\ last' = Event(origin, Len(attempts) + 1, 0, <<>>, Null)
    /\ UNCHANGED <<cast, settledOrder, choiceVars, counterVars>>

\* fetch() resolves with an ok response: fetchCast goes on to await json().
ResponseArrivesOk(a, status) ==
    /\ attempts[a].pc = "fetch"
    /\ ResponseOk(status)
    /\ attempts' = [attempts EXCEPT ![a].pc = "json"]
    /\ last' = Event("ResponseArrivesOk", a, status, <<>>, Null)
    /\ UNCHANGED <<cast, loading, error, mounted, clicks, settledOrder>>
    /\ UNCHANGED <<choiceVars, counterVars>>

\* fetch() resolves with a non-ok response: throw, catch, finally.
ResponseNotOkAutoRetry(a, status) ==
    /\ attempts[a].pc = "fetch"
    /\ ~ResponseOk(status)
    /\ error' = HttpErrorMessage(status)
    /\ loading' = (Len(attempts) < MaxFetches)
    /\ attempts' =
          LET done == [attempts EXCEPT ![a].pc = "settled", ![a].outcome = "failed",
                                       ![a].shown = <<>>, ![a].promise = "fulfilled"]
          IN  IF Len(attempts) < MaxFetches
              THEN Append(done, [origin |-> "retry", pc |-> "fetch",
                                 outcome |-> "pending", shown |-> cast,
                                 promise |-> "pending"])
              ELSE done
    /\ settledOrder' = Append(settledOrder, a)
    /\ last' = Event("ResponseNotOk", a, status, <<>>, HttpErrorMessage(status))
    /\ UNCHANGED <<cast, mounted, clicks, choiceVars, counterVars>>

ResponseNotOkClearsCast(a, status) ==
    /\ attempts[a].pc = "fetch"
    /\ ~ResponseOk(status)
    /\ error' = HttpErrorMessage(status)
    /\ cast' = <<>>
    /\ loading' = FALSE
    /\ Settled(a, "failed")
    /\ last' = Event("ResponseNotOk", a, status, <<>>, HttpErrorMessage(status))
    /\ UNCHANGED <<mounted, clicks, choiceVars, counterVars>>

ResponseNotOk(a, status) ==
    /\ attempts[a].pc = "fetch"
    /\ ~ResponseOk(status)
    /\ error' = HttpErrorMessage(status)
    /\ loading' = FALSE
    /\ Settled(a, "failed")
    /\ last' = Event("ResponseNotOk", a, status, <<>>, HttpErrorMessage(status))
    /\ UNCHANGED <<cast, mounted, clicks, choiceVars, counterVars>>

\* fetch() rejects: catch, finally.
FetchRejectsUncaught(a, msg) ==
    /\ attempts[a].pc = "fetch"
    /\ attempts' = [attempts EXCEPT ![a].pc = "settled", ![a].outcome = "failed",
                                    ![a].shown = <<>>, ![a].promise = "rejected"]
    /\ settledOrder' = Append(settledOrder, a)
    /\ last' = Event("FetchRejects", a, 0, <<>>, msg)
    /\ UNCHANGED <<cast, loading, error, mounted, clicks, choiceVars, counterVars>>

FetchRejects(a, msg) ==
    /\ attempts[a].pc = "fetch"
    /\ error' = msg
    /\ loading' = FALSE
    /\ Settled(a, "failed")
    /\ last' = Event("FetchRejects", a, 0, <<>>, msg)
    /\ UNCHANGED <<cast, mounted, clicks, choiceVars, counterVars>>

\* response.json() resolves: setCast(data), finally.
JsonParsesIfLatest(a, data) ==
    /\ attempts[a].pc = "json"
    /\ cast' = IF a = Len(attempts) THEN data ELSE cast
    /\ loading' = IF a = Len(attempts) THEN FALSE ELSE loading
    /\ Settled(a, "ok")
    /\ last' = Event("JsonParses", a, 0, data, Null)
    /\ UNCHANGED <<error, mounted, clicks, choiceVars, counterVars>>

JsonParsesAppends(a, data) ==
    /\ attempts[a].pc = "json"
    /\ cast' = cast \o data
    /\ loading' = FALSE
    /\ Settled(a, "ok")
    /\ last' = Event("JsonParses", a, 0, data, Null)
    /\ UNCHANGED <<error, mounted, clicks, choiceVars, counterVars>>

JsonParses(a, data) ==
    /\ attempts[a].pc = "json"
    /\ cast' = data
    /\ loading' = FALSE
    /\ Settled(a, "ok")
    /\ last' = Event("JsonParses", a, 0, data, Null)
    /\ UNCHANGED <<error, mounted, clicks, choiceVars, counterVars>>

\* response.json() rejects: catch, finally.
JsonFailsNoFinally(a, msg) ==
    /\ attempts[a].pc = "json"
    /\ error' = msg
    /\ Settled(a, "failed")
    /\ last' = Event("JsonFails", a, 0, <<>>, msg)
    /\ UNCHANGED <<cast, loading, mounted, clicks, choiceVars, counterVars>>

JsonFails(a, msg) ==
    /\ attempts[a].pc = "json"
    /\ error' = msg
    /\ loading' = FALSE
    /\ Settled(a, "failed")
    /\ last' = Event("JsonFails", a, 0, <<>>, msg)
    /\ UNCHANGED <<cast, mounted, clicks, choiceVars, counterVars>>

-----------------------------------------------------------------------------
(* Events that invoke fetchCast *)

\* useEffect(() => { fetchCast(); }, []) : runs once after the first render.
useEffect ==
    /\ mounted = 0
    /\ mounted' = 1
    /\ fetchCast("mount")
    /\ UNCHANGED clicks

\* The same effect run a second time right after the first, as React's
\* StrictMode does in development: mount, simulated unmount, mount again, on
\* the same component state.  The effect returns no cleanup, so the first
\* fetch stays in flight.
useEffectStrictRerun ==
    /\ mounted = 1
    /\ last.kind = "mount"
    /\ mounted' = 2
    /\ fetchCast("mount")
    /\ UNCHANGED clicks

\* <button onClick={fetchCast}>Retry</button>
ClickRetry ==
    /\ View.retry
    /\ fetchCast("retry")
    /\ clicks' = clicks + 1
    /\ UNCHANGED mounted

\* <button onClick={fetchCast} disabled={loading}>: a disabled button
\* dispatches no click.
ClickRefresh ==
    /\ View.refresh
    /\ ~View.disabled
    /\ fetchCast("refresh")
    /\ clicks' = clicks + 1
    /\ UNCHANGED mounted

\* A click on the i-th thumbnail of the grid.  function ListCast() declares
\* no parameter, so the onChoice prop never reaches it, and the <a> element
\* has neither an onClick nor an href: the click runs no code.
ClickThumbnail(i) ==
    /\ View.gridShown
    /\ i \in 1..Len(View.grid)
    /\ last' = Event("thumbnail", i, 0, <<>>, Null)
    /\ UNCHANGED <<cast, loading, error, mounted, attempts, clicks, settledOrder>>
    /\ UNCHANGED <<choiceVars, counterVars>>

-----------------------------------------------------------------------------
(* Counter *)

\* `${pageTitle}--${count}`
TitleForCurrent(n) == title \o "--" \o ToString(n)

TitleFor(n) == pageTitle \o "--" \o ToString(n)

\* <button onClick={() => setCount(count + 1)}>: the click sets the state and
\* React renders Counter again.  React runs the effect of a render before it
\* renders again, so a click is taken up once that effect has run.
ActivateAddsTwo ==
    /\ ~effectDue
    /\ count < MaxCount
    /\ count' = count + 2
    /\ presses' = presses + 1
    /\ effectDue' = TRUE
    /\ UNCHANGED <<pageTitle, title, galleryVars, choiceVars>>

Activate ==
    /\ ~effectDue
    /\ count < MaxCount
    /\ count' = count + 1
    /\ presses' = presses + 1
    /\ effectDue' = TRUE
    /\ UNCHANGED <<pageTitle, title, galleryVars, choiceVars>>

\* useEffect(() => { count && (document.title = ...) }) without a dependency
\* array: runs after every render, and writes only when count is not 0.
CounterEffectResets ==
    /\ effectDue
    /\ effectDue' = FALSE
    /\ title' = IF count # 0 THEN TitleFor(count) ELSE pageTitle
    /\ UNCHANGED <<pageTitle, count, presses, galleryVars, choiceVars>>

CounterEffect ==
    /\ effectDue
    /\ effectDue' = FALSE
    /\ title' = IF count # 0 THEN TitleFor(count) ELSE title
    /\ UNCHANGED <<pageTitle, count, presses, galleryVars, choiceVars>>

\* Click Me { count === 0 ? `` : `${count} times` }
ButtonTextAlwaysCount(n) == "Click Me " \o ToString(n) \o " times"

ButtonText(n) == "Click Me " \o (IF n = 0 THEN "" ELSE ToString(n) \o " times")

\* The text of the button in the current state.
CounterView == ButtonText(count)

-----------------------------------------------------------------------------
(* Specifications *)

InitNotLoading ==
    /\ cast = <<>>
    /\ loading = FALSE
    /\ error = Null
    /\ mounted = 0
    /\ attempts = <<>>
    /\ clicks = 0
    /\ settledOrder = <<>>
    /\ last = [kind |-> "init", id |-> 0, status |-> 0, data |-> <<>>, msg |-> Null,
               cast |-> <<>>, loading |-> FALSE, error |-> Null, inFlight |-> {}]
    /\ onChoice \in BOOLEAN
    /\ invoked = <<>>
    /\ pageTitle \in Titles
    /\ title = pageTitle
    /\ count = 0
    /\ effectDue = TRUE
    /\ presses = 0

\* ListCast after its first render: useState([]), useState(true),
\* useState(null), with or without an onChoice prop.
InitListCast ==
    /\ cast = <<>>
    /\ loading = TRUE
    /\ error = Null
    /\ mounted = 0
    /\ attempts = <<>>
    /\ clicks = 0
    /\ settledOrder = <<>>
    /\ last = [kind |-> "init", id |-> 0, status |-> 0, data |-> <<>>, msg |-> Null,
               cast |-> <<>>, loading |-> TRUE, error |-> Null, inFlight |-> {}]
    /\ onChoice \in BOOLEAN
    /\ invoked = <<>>

\* Counter after its first render: pageTitle holds what document.title was
\* when the module was loaded, useState(0), and the first effect is due.
\* document.title is whatever the page last wrote to it, which need not be
\* what it was at load.
InitCounter ==
    /\ pageTitle \in Titles
    /\ title \in Titles
    /\ count = 0
    /\ effectDue = TRUE
    /\ presses = 0

\* The state after the first render, with document.title as it was at load.
Init ==
    /\ InitListCast
    /\ InitCounter
    /\ title = pageTitle

\* The state after the first render, with any document.title.
InitRetitled ==
    /\ InitListCast
    /\ InitCounter

Completes ==
    \/ \E a \in Ids, status \in Statuses : ResponseArrivesOk(a, status)
    \/ \E a \in Ids, status \in Statuses : ResponseNotOk(a, status)
    \/ \E a \in Ids, msg \in TransportMessages : FetchRejects(a, msg)
    \/ \E a \in Ids, data \in Payloads : JsonParses(a, data)
    \/ \E a \in Ids, msg \in ParseMessages : JsonFails(a, msg)

\* ListCast mounted once.
Next ==
    \/ useEffect
    \/ ClickRetry
    \/ ClickRefresh
    \/ Completes

Spec == Init /\ [][Next]_vars

\* ListCast mounted under StrictMode in development.
NextStrict ==
    \/ useEffect
    \/ useEffectStrictRerun
    \/ ClickRetry
    \/ ClickRefresh
    \/ Completes

SpecStrict == Init /\ [][NextStrict]_vars

\* ListCast mounted once, in a browser that runs the mount effect and in
\* which every request settles: fetch() and response.json() each resolve or
\* reject.
SpecLive == Spec /\ WF_vars(useEffect) /\ WF_vars(Completes)

\* ListCast mounted once, with a user who also clicks thumbnails.
NextChoice ==
    \/ Next
    \/ \E i \in 1..MaxLen : ClickThumbnail(i)

SpecChoice == Init /\ [][NextChoice]_vars

\* Counter on its own.
NextCounter ==
    \/ Activate
    \/ CounterEffect

SpecCounter == InitRetitled /\ [][NextCounter]_vars

-----------------------------------------------------------------------------
(* Properties *)

\* C1: every attempt that settles leaves loading = FALSE, whichever way it
\* ends: parsed body, non-ok status, rejected fetch, rejected parse.
C1_LoadingClearedOnSettle ==
    /\ last.kind \in SettleKinds => loading = FALSE
    /\ (InFlight = {} /\ attempts # <<>>) => loading = FALSE

C1_Witness ==
    /\ last.kind = "JsonFails"
    /\ last.loading
    /\ ~loading
    /\ \E a \in Ids : attempts[a].pc = "settled" /\ attempts[a].outcome = "ok"

\* C2: an attempt that ends with a non-ok status sets error to a message that
\* contains the status code and leaves the stored collection as it was.
C2_StatusFailureKeepsCollection ==
    last.kind = "ResponseNotOk" =>
        /\ Contains(error, ToString(last.status))
        /\ cast = last.cast

C2_Witness ==
    /\ last.kind = "ResponseNotOk"
    /\ last.status = 404
    /\ Contains(error, "404")
    /\ cast # <<>>

C4_ThreeBranches ==
    LET v == View
        first == loading /\ Len(cast) = 0
    IN  /\ PlaceholderOnly(v) <=> first
        /\ ErrorWithRetry(v) <=> (~first /\ error # Null)
        /\ RefreshThenGrid(v) <=> (~first /\ error = Null)
        /\ ~(PlaceholderOnly(v) /\ ErrorWithRetry(v))
        /\ ~(PlaceholderOnly(v) /\ RefreshThenGrid(v))
        /\ ~(ErrorWithRetry(v) /\ RefreshThenGrid(v))
        /\ PlaceholderOnly(v) \/ ErrorWithRetry(v) \/ RefreshThenGrid(v)

C4_Witness ==
    /\ loading
    /\ cast # <<>>
    /\ RefreshThenGrid(View)
    /\ ErrorWithRetry(ViewBefore)

\* C5 as stated: while an attempt started by the Refresh control is in
\* flight, the grid shown at the click stays rendered with the busy
\* indicator, whatever the collection was.
C5_GridKeptForEveryCollection ==
    \A a \in InFlight :
        attempts[a].origin = "refresh" =>
            /\ RefreshThenGrid(View)
            /\ View.spinner
            /\ View.grid = GridOf(attempts[a].shown)

\* C5 amended: the same, for a non-empty collection.
C5_GridKeptForNonEmptyCollection ==
    \A a \in InFlight :
        (attempts[a].origin = "refresh" /\ attempts[a].shown # <<>>) =>
            /\ RefreshThenGrid(View)
            /\ ~PlaceholderOnly(View)
            /\ View.spinner
            /\ View.disabled
            /\ View.grid = GridOf(attempts[a].shown)

C5_Witness ==
    \E a \in InFlight :
        /\ attempts[a].origin = "refresh"
        /\ attempts[a].shown # <<>>
        /\ attempts[a].pc = "json"
        /\ View.spinner
        /\ Len(View.grid) = Len(attempts[a].shown)

\* C6: from the click on Retry until the attempt settles the error branch is
\* not rendered, and when the attempt succeeds the Refresh control and the
\* grid are rendered.
C6_RetrySkipsErrorBranch ==
    /\ \A a \in InFlight : attempts[a].origin = "retry" => ~ErrorWithRetry(View)
    /\ (last.kind = "JsonParses" /\ attempts[last.id].origin = "retry") =>
          (RefreshThenGrid(View) /\ View.grid = GridOf(last.data))

C6_Witness ==
    /\ last.kind = "JsonParses"
    /\ attempts[last.id].origin = "retry"
    /\ last.cast # <<>>
    /\ last.data # last.cast
    /\ RefreshThenGrid(View)

\* C7: the Refresh control is disabled whenever loading is true, and no
\* attempt is started by the Refresh control while loading is true or while
\* another attempt is in flight.
C7_RefreshDisabledWhileLoading ==
    /\ (View.refresh /\ loading) => View.disabled
    /\ last.kind = "refresh" => (~last.loading /\ last.inFlight = {})

C7_Witness ==
    /\ View.refresh
    /\ View.disabled
    /\ loading
    /\ InFlight # {}
    /\ last.kind = "refresh"

\* C8 as stated: while a fetch is in flight a rendered control can invoke
\* refresh again.
C8_ClickableWhileInFlight ==
    InFlight # {} => (View.retry \/ (View.refresh /\ ~View.disabled))

\* C8 amended: with the mount effect run once, no rendered control can invoke
\* refresh while a fetch is in flight, no attempt starts while another is in
\* flight, and at most one attempt is in flight.
C8_NoOverlapThroughControls ==
    /\ InFlight # {} => (~View.retry /\ (View.refresh => View.disabled))
    /\ last.kind \in StartKinds => last.inFlight = {}
    /\ Cardinality(InFlight) <= 1

C8_Witness ==
    /\ Cardinality(InFlight) = 1
    /\ Len(attempts) = MaxFetches
    /\ View.refresh
    /\ View.disabled

C10_NoAutomaticFetch ==
    /\ mounted <= 1
    /\ Len(attempts) = mounted + clicks
    /\ \A a \in Ids : (attempts[a].origin = "mount") <=> (a = 1)
    /\ ErrorWithRetry(ViewBefore) => last.kind = "retry"

C10_Witness ==
    /\ Len(attempts) = 3
    /\ clicks = 2
    /\ attempts[2].outcome = "failed"
    /\ attempts[3].origin = "retry"

\* C11: ListCast starts with loading = TRUE, an empty collection and no
\* error, and from the first render until the first fetch settles the
\* render is the loading placeholder and nothing else: no Retry button, no
\* Refresh button, no grid.
C11_PlaceholderUntilFirstSettle ==
    /\ attempts = <<>> => (loading = TRUE /\ cast = <<>> /\ error = Null)
    /\ settledOrder = <<>> =>
          PlaceholderOnly(View)

C11_Witness ==
    /\ settledOrder = <<>>
    /\ Len(attempts) = 1
    /\ attempts[1].pc = "json"
    /\ PlaceholderOnly(View)

\* The state of the load state machine in a state of the component: Idle
\* before any fetchCast call, Loading while loading is set, and otherwise
\* Error or Loaded by the error message.
LoadStateOf(started, l, e) ==
    IF ~started THEN "Idle"
    ELSE IF l THEN "Loading"
    ELSE IF e # Null THEN "Error"
    ELSE "Loaded"

LoadState == LoadStateOf(attempts # <<>>, loading, error)

\* The load state the last event started from.
LoadStateBefore ==
    LoadStateOf(IF last.kind \in StartKinds THEN last.id > 1 ELSE TRUE,
                last.loading, last.error)

\* What the last event was to the state machine.
LoadStep ==
    IF last.kind \in StartKinds THEN "refresh"
    ELSE IF last.kind = "JsonParses" THEN "success"
    ELSE IF last.kind \in SettleKinds THEN "failure"
    ELSE "response"

LoadTransitions ==
    {<<"Idle", "refresh", "Loading">>,
     <<"Loading", "success", "Loaded">>,
     <<"Loading", "failure", "Error">>,
     <<"Loaded", "refresh", "Loading">>,
     <<"Error", "refresh", "Loading">>}

\* C12: every step that changes the load state is one of the five
\* transitions Idle -refresh-> Loading, Loading -success-> Loaded,
\* Loading -failure-> Error, Loaded -refresh-> Loading and
\* Error -refresh-> Loading; a step that leaves the load state as it was is
\* the response arriving for the request in flight, and changes neither the
\* collection nor the error.  So no step goes from Loaded to Error, from
\* Error to Loaded, or from Loaded to Loaded with another collection.
C12_OnlyListedTransitions ==
    last.kind # "init" =>
        /\ LoadState # LoadStateBefore =>
              <<LoadStateBefore, LoadStep, LoadState>> \in LoadTransitions
        /\ LoadState = LoadStateBefore =>
              /\ LoadStep = "response"
              /\ LoadState = "Loading"
              /\ cast = last.cast
              /\ error = last.error

C12_Witness ==
    /\ Len(attempts) = 3
    /\ attempts[1].outcome = "ok"
    /\ attempts[2].outcome = "failed"
    /\ attempts[3].outcome = "ok"
    /\ attempts[3].origin = "retry"
    /\ LoadStateBefore = "Loading"
    /\ LoadState = "Loaded"

\* C13: once the mount effect has called fetchCast, loading is TRUE exactly
\* when some attempt has started and has not settled.
C13_LoadingIffInFlight ==
    mounted >= 1 => (loading <=> InFlight # {})

C13_Witness ==
    /\ mounted = 1
    /\ loading
    /\ InFlight = {Len(attempts)}
    /\ settledOrder # <<>>
    /\ cast # <<>>

\* C14: after a successful fetch of N records with unique ids the render
\* shows the grid, the grid has exactly N thumbnails in the order of the
\* records, and thumbnail i has record i's id as key, images/{slug}_tn.svg
\* as image source and record i's name as tooltip and as alt text.
C14_GridMatchesRecords ==
    last.kind = "JsonParses" =>
        /\ UniqueIds(last.data)
        /\ View.gridShown
        /\ Len(View.grid) = Len(last.data)
        /\ \A i \in 1..Len(last.data) :
              /\ View.grid[i].key = last.data[i].id
              /\ View.grid[i].src = "images/" \o last.data[i].slug \o "_tn.svg"
              /\ View.grid[i].tooltip = last.data[i].name
              /\ View.grid[i].alt = last.data[i].name

C14_Witness ==
    /\ last.kind = "JsonParses"
    /\ Len(last.data) = MaxLen
    /\ last.data[1].id > last.data[2].id
    /\ View.grid[1].key = last.data[1].id
    /\ View.grid[1].src = "images/slug2_tn.svg"

FailureKinds == {"ResponseNotOk", "FetchRejects", "JsonFails"}

\* C15: a rejected fetch(), a non-ok status and a rejected response.json()
\* are each caught inside fetchCast: the state after the failure has the
\* failure's message, which is not null, in error, the render is the error
\* branch showing it, and the promise fetchCast returned is fulfilled; no
\* call of fetchCast ever ends with its promise rejected.
C15_FailuresCaught ==
    /\ \A a \in Ids : attempts[a].promise # "rejected"
    /\ \A a \in Ids : attempts[a].pc = "settled" <=> attempts[a].promise = "fulfilled"
    /\ last.kind \in FailureKinds =>
          /\ last.msg # Null
          /\ error = last.msg
          /\ ErrorWithRetry(View)
          /\ Contains(View.text, last.msg)
          /\ attempts[last.id].outcome = "failed"
          /\ attempts[last.id].promise = "fulfilled"

C15_Witness ==
    /\ last.kind = "JsonFails"
    /\ error \in ParseMessages
    /\ ErrorWithRetry(View)
    /\ attempts[last.id].promise = "fulfilled"
    /\ Len(settledOrder) = 3
    /\ \A a \in Ids : attempts[a].outcome = "failed"

\* C16: the collection is empty until the first successful fetch, and
\* after every successful fetch it is exactly the fetched list: the same
\* length and the same records in the same places, with nothing of the
\* collection held before kept, merged or appended.
C16_ReplacedWholesale ==
    /\ (\A a \in Ids : attempts[a].outcome # "ok") => cast = <<>>
    /\ last.kind = "JsonParses" =>
          /\ Len(cast) = Len(last.data)
          /\ \A i \in 1..Len(cast) : cast[i] = last.data[i]

C16_Witness ==
    /\ last.kind = "JsonParses"
    /\ Len(last.cast) = 2
    /\ Len(last.data) = 1
    /\ last.data[1] # last.cast[1]
    /\ cast = last.data

\* A branch with a control that calls fetchCast and loading cleared.
AtRest == ~loading /\ (RefreshThenGrid(View) \/ ErrorWithRetry(View))

\* C17: when the mount effect runs and every request settles, every call
\* of fetchCast is followed by a state in which that attempt has settled,
\* loading is FALSE and the render is the grid branch or the error branch;
\* from such a state nothing changes until a click on Retry or Refresh
\* calls fetchCast again; and in every such state one of the two buttons is
\* on screen and enabled, so fetchCast can always be called again.
C17_EveryRefreshComesToRest ==
    /\ (attempts = <<>>) ~> (attempts # <<>>)
    /\ \A n \in 1..MaxFetches :
          (Len(attempts) = n) ~>
              (n \in Ids /\ attempts[n].pc = "settled" /\ AtRest)
    /\ [][AtRest => /\ clicks' = clicks + 1
                    /\ Len(attempts') = Len(attempts) + 1
                    /\ attempts'[Len(attempts')].origin \in {"retry", "refresh"}
                    /\ loading']_galleryVars
    /\ [](~loading => AtRest)
    /\ [](AtRest => (View.retry \/ (View.refresh /\ ~View.disabled)))
    /\ []((AtRest /\ Len(attempts) < MaxFetches) => ENABLED (ClickRetry \/ ClickRefresh))

C17_Witness ==
    /\ AtRest
    /\ ErrorWithRetry(View)
    /\ Len(attempts) = 2
    /\ attempts[2].origin = "refresh"
    /\ attempts[2].outcome = "failed"
    /\ cast # <<>>

\* C18: nothing but its own response ends a request.  While an attempt is
\* in flight loading is TRUE, and the only step the component can take is
\* the response or the failure of that attempt: there is no timer and no
\* button to click.  While the attempt in flight is one started with an
\* empty collection, the render is the placeholder, with no control that
\* calls fetchCast.  So a request that never settles leaves the component
\* in that state for ever.
C18_NoTimeout ==
    /\ InFlight # {} => loading
    /\ last.inFlight # {} =>
          /\ last.kind \in SettleKinds \cup {"ResponseArrivesOk"}
          /\ last.id \in last.inFlight
    /\ InFlight # {} => ~ENABLED (useEffect \/ ClickRetry \/ ClickRefresh)
    /\ (InFlight # {} /\ cast = <<>>) =>
          /\ PlaceholderOnly(View)
          /\ ~View.retry /\ ~View.refresh

C18_Witness ==
    /\ attempts # <<>>
    /\ settledOrder = <<>>
    /\ attempts[1].pc = "fetch"
    /\ loading
    /\ PlaceholderOnly(View)
    /\ ~ENABLED (useEffect \/ ClickRetry \/ ClickRefresh)

\* C19: after a click on thumbnail i, if the parent passed onChoice the
\* callback has been called with record i of the collection, and if it did
\* not, nothing has been called.
C19_CallbackInvoked ==
    last.kind = "thumbnail" =>
        /\ onChoice => (invoked # <<>> /\ invoked[Len(invoked)] = cast[last.id])
        /\ ~onChoice => invoked = <<>>

\* C20: the count is 0 before the first click, every click on the button
\* adds exactly 1 to it, so after k clicks it is k, and no step lowers it
\* or sets it back.
C20_CountsActivations ==
    /\ count = 0
    /\ [](count = presses)
    /\ [][/\ count' >= count
          /\ count' <= count + 1
          /\ presses' # presses => count' = count + 1]_vars

C20_Witness ==
    /\ presses = 3
    /\ count = 3
    /\ ~effectDue

\* C21: once the effect of the render that follows the k-th click has run,
\* for k >= 1, document.title is the title captured at load followed by
\* "--" and k.  The captured title never changes, so the prefix is the
\* original one and not a title the effect wrote earlier.
C21_LabelIsBaselineAndCount ==
    /\ pageTitle \in Titles
    /\ [][pageTitle' = pageTitle]_vars
    /\ []((presses >= 1 /\ ~effectDue) =>
            title = pageTitle \o "--" \o ToString(presses))

C21_Witness ==
    /\ presses = 2
    /\ ~effectDue
    /\ title = pageTitle \o "--2"
    /\ pageTitle = "Cast"

\* C22: while the count is 0 the effect of Counter writes nothing: the step
\* in which it runs leaves document.title as it was, so the title gets no
\* "--0" suffix and is not set back to the title captured at load.
C22_ZeroCountLeavesLabel ==
    /\ [][(count = 0 /\ effectDue /\ ~effectDue') => title' = title]_vars
    /\ [](count = 0 => (title \in Titles /\ ~Contains(title, "--")))

C22_Witness ==
    /\ count = 0
    /\ ~effectDue
    /\ title # pageTitle
    /\ title \in Titles

Digits == {"0", "1", "2", "3", "4", "5", "6", "7", "8", "9"}

\* C23: the text of the button is "Click Me " with no number after it
\* when the count is 0, and "Click Me " followed by the count and " times"
\* when the count is not 0, for every count.
C23_DisplayText ==
    /\ count = 0 =>
          /\ CounterView = "Click Me "
          /\ \A d \in Digits : ~Contains(CounterView, d)
          /\ ~Contains(CounterView, "times")
    /\ count # 0 =>
          CounterView = "Click Me " \o ToString(count) \o " times"

C23_Witness ==
    /\ count = 12
    /\ CounterView = "Click Me 12 times"

\* C24: a call of fetchCast has set loading to TRUE and error to null by
\* the time its request is out, and has left the collection as it was; the
\* collection differs from what it was before a step only when the step is
\* a successful attempt settling.
C24_RefreshFrame ==
    /\ last.kind \in StartKinds =>
          /\ loading = TRUE
          /\ error = Null
          /\ cast = last.cast
          /\ attempts[last.id].pc = "fetch"
    /\ cast # last.cast => last.kind = "JsonParses"

C24_Witness ==
    /\ last.kind = "retry"
    /\ last.error # Null
    /\ ~last.loading
    /\ last.cast # <<>>
    /\ loading
    /\ error = Null
    /\ cast = last.cast

\* C25: with ListCast mounted once and fetchCast called only by the mount
\* effect and the rendered buttons, a non-null error implies loading is
\* FALSE, the error branch with its Retry button is rendered only while no
\* attempt is in flight, and at most one attempt is in flight.
C25_ErrorOnlyAtRest ==
    /\ mounted <= 1
    /\ error # Null => ~loading
    /\ ErrorWithRetry(View) => (InFlight = {} /\ ~View.disabled)
    /\ View.retry => InFlight = {}
    /\ Cardinality(InFlight) <= 1

C25_Witness ==
    /\ ErrorWithRetry(View)
    /\ error # Null
    /\ ~loading
    /\ InFlight = {}
    /\ cast # <<>>
    /\ Len(attempts) < MaxFetches

\* C26: when a refresh started from the grid branch with a non-empty
\* collection fails, the render is the error branch, without the grid, and
\* the collection is still in the state; the click on Retry that follows
\* renders the grid of that collection again with the Refresh button
\* disabled and busy, not the placeholder; and when the retry fails too the
\* render is the error branch again with the collection unchanged.
C26_StaleGridReturnsOnRetry ==
    /\ (last.kind \in FailureKinds /\ last.cast # <<>>
          /\ attempts[last.id].origin \in {"refresh", "retry"}) =>
          /\ ErrorWithRetry(View)
          /\ ~View.gridShown
          /\ View.grid = <<>>
          /\ cast = last.cast
    /\ (last.kind = "retry" /\ last.cast # <<>>) =>
          /\ ErrorWithRetry(ViewBefore)
          /\ RefreshThenGrid(View)
          /\ ~PlaceholderOnly(View)
          /\ View.disabled
          /\ View.spinner
          /\ View.label = "Refreshing..."
          /\ View.grid = GridOf(last.cast)
          /\ cast = last.cast

C26_Witness ==
    /\ Len(attempts) = 3
    /\ attempts[1].outcome = "ok"
    /\ attempts[2].origin = "refresh"
    /\ attempts[2].outcome = "failed"
    /\ attempts[3].origin = "retry"
    /\ attempts[3].outcome = "failed"
    /\ last.kind \in FailureKinds
    /\ last.id = 3
    /\ ErrorWithRetry(View)
    /\ cast # <<>>
    /\ cast = last.cast

=============================================================================
